---- MODULE Spec2Model ----
(***************************************************************************)
(* DealDigger AI: the AI-response ingestion pipeline of                    *)
(* services/geminiService.ts (credential gate, tolerant JSON decoder,      *)
(* generateDeals, verifyDeal) and the App component that calls it.         *)
(*                                                                         *)
(* A text is a sequence of characters; a character is a one-character      *)
(* string, except the backtick, which a TLA+ string cannot hold and which  *)
(* is written BT.  A JavaScript value produced by JSON.parse is a record   *)
(*   [kind, text, items]                                                   *)
(* kind in null, true, false, number, string, array, object, member;      *)
(* text the characters of a string, the lexeme of a number or the key of   *)
(* an object member; items the elements of an array, the members of an    *)
(* object or the one value of a member.  A number is kept as its lexeme,   *)
(* so 1 and 1.0 are told apart, which JavaScript does not do; a \uXXXX     *)
(* escape is kept as one character named by its four digits.               *)
(***************************************************************************)
EXTENDS Integers, Sequences, FiniteSets, TLC

\* ------------------------------------------------------------------------
\* Characters
\* ------------------------------------------------------------------------

DQ == "\""

BSL == "\\"

LF == "\n"

BT == "bt"

\* What String.prototype.trim removes and the regular expression class \s
\* matches (of the characters a text of this model can hold).
JsWhiteSpace == {" ", "\n", "\t", "\r", "\f"}

\* The white space of the JSON grammar.
JsonWhiteSpace == {" ", "\n", "\t", "\r"}

DigitChars == {"0", "1", "2", "3", "4", "5", "6", "7", "8", "9"}

LetterChars ==
  {"a", "b", "c", "d", "e", "f", "g", "h", "i", "j", "k", "l", "m",
   "n", "o", "p", "q", "r", "s", "t", "u", "v", "w", "x", "y", "z",
   "A", "B", "C", "D", "E", "F", "G", "H", "I", "J", "K", "L", "M",
   "N", "O", "P", "Q", "R", "S", "T", "U", "V", "W", "X", "Y", "Z"}

\* The regular expression class \w.
WordChars == LetterChars \cup DigitChars \cup {"_"}

\* ------------------------------------------------------------------------
\* JavaScript values
\* ------------------------------------------------------------------------

JNull == [kind |-> "null", text |-> <<>>, items |-> <<>>]

JNum(lexeme) == [kind |-> "number", text |-> lexeme, items |-> <<>>]

JStr(chars) == [kind |-> "string", text |-> chars, items |-> <<>>]

JArr(elements) == [kind |-> "array", text |-> <<>>, items |-> elements]

JObj(members) == [kind |-> "object", text |-> <<>>, items |-> members]

JMember(key, val) == [kind |-> "member", text |-> key, items |-> <<val>>]

\* obj[key] = val: a key the object holds keeps its place and takes the new
\* value, a new key goes last.
PutMember(members, key, val) ==
  IF \E n \in 1..Len(members) : members[n].text = key
    THEN [n \in 1..Len(members) |->
            IF members[n].text = key THEN JMember(key, val) ELSE members[n]]
    ELSE Append(members, JMember(key, val))

HasMember(v, key) ==
  v.kind = "object" /\ \E n \in 1..Len(v.items) : v.items[n].text = key

\* v[key], for an object that has the key.
GetMember(v, key) ==
  LET n == CHOOSE m \in 1..Len(v.items) : v.items[m].text = key
  IN  v.items[n].items[1]

\* ------------------------------------------------------------------------
\* Strings
\* ------------------------------------------------------------------------

\* s.substring(from - 1, to): the characters from..to of s (1-based, both
\* included), empty when to < from.
Sub(s, from, to) == SubSeq(s, from, to)

StartsWith(s, prefix) ==
  Len(s) >= Len(prefix) /\ SubSeq(s, 1, Len(prefix)) = prefix

EndsWith(s, suffix) ==
  Len(s) >= Len(suffix) /\ SubSeq(s, Len(s) - Len(suffix) + 1, Len(s)) = suffix

\* First position >= i of s that holds no character of set, Len(s) + 1 if none.
RECURSIVE SkipChars(_, _, _)
SkipChars(s, i, set) ==
  IF i <= Len(s) /\ s[i] \in set THEN SkipChars(s, i + 1, set) ELSE i

\* Last position <= i of s that holds no character of set, 0 if none.
RECURSIVE SkipCharsBack(_, _, _)
SkipCharsBack(s, i, set) ==
  IF i >= 1 /\ s[i] \in set THEN SkipCharsBack(s, i - 1, set) ELSE i

\* String.prototype.trim
Trim(s) ==
  LET from == SkipChars(s, 1, JsWhiteSpace)
      to == SkipCharsBack(s, Len(s), JsWhiteSpace)
  IN  Sub(s, from, to)

\* ------------------------------------------------------------------------
\* JSON.parse
\* ------------------------------------------------------------------------

\* A parse result: ok, the value and the position after it.
ParseFail == [ok |-> FALSE, val |-> JNull, next |-> 0]

ParseOk(v, n) == [ok |-> TRUE, val |-> v, next |-> n]

\* The character an escape \c of a string stands for.
Unescape(c) ==
  CASE c = "n" -> "\n"
    [] c = "t" -> "\t"
    [] c = "r" -> "\r"
    [] c = "f" -> "\f"
    [] c = "b" -> "backspace"
    [] OTHER -> c

SetMax(S) == CHOOSE x \in S : \A y \in S : y <= x

SetMin(S) == CHOOSE x \in S : \A y \in S : x <= y

\* The number of backslashes of s right before position k.  In a string the
\* run ends at the opening quote at the latest.
EscapeRun(s, k) == (k - 1) - SkipCharsBack(s, k - 1, {BSL})

\* Position k of a string whose first character is at lo holds the backslash
\* that opens an escape: an even number of backslashes precedes it.
EscapeAt(s, lo, k) == k >= lo /\ s[k] = BSL /\ EscapeRun(s, k) % 2 = 0

\* The escape that opens at position k is one JSON allows.
EscapeOk(s, k) ==
  /\ k + 1 <= Len(s)
  /\ \/ s[k + 1] \in {DQ, BSL, "/", "b", "f", "n", "r", "t"}
     \/ /\ s[k + 1] = "u"
        /\ k + 5 <= Len(s)
        /\ \A h \in (k + 2)..(k + 5) : s[h] \in DigitChars \cup {"a", "b", "c", "d", "e", "f", "A", "B", "C", "D", "E", "F"}

\* The positions from lo to before close where a character of the string
\* starts: not the character after the backslash of an escape, and not one
\* of the four digits of a \u escape.
CharStarts(s, lo, close) ==
  {k \in lo..(close - 1) :
     /\ ~EscapeAt(s, lo, k - 1)
     /\ \A e \in (k - 5)..(k - 2) : ~(EscapeAt(s, lo, e) /\ s[e + 1] = "u")}

\* The character of the string that starts at position k.
CharAt(s, k) ==
  IF s[k] # BSL THEN s[k]
  ELSE IF s[k + 1] = "u"
    THEN "u" \o s[k + 2] \o s[k + 3] \o s[k + 4] \o s[k + 5]
  ELSE Unescape(s[k + 1])

\* The n-th smallest element of a set of integers.
Nth(S, n) == CHOOSE p \in S : Cardinality({q \in S : q <= p}) = n

\* The string whose characters start at lo and whose closing quote is at
\* close: no control character and no escape that JSON does not allow.
StringUpTo(s, lo, close) ==
  IF \E k \in lo..(close - 1) :
       s[k] \in {"\n", "\t", "\r", "\f"} \/ (EscapeAt(s, lo, k) /\ ~EscapeOk(s, k))
    THEN ParseFail
    ELSE ParseOk(JStr([n \in 1..Cardinality(CharStarts(s, lo, close)) |->
                         CharAt(s, Nth(CharStarts(s, lo, close), n))]),
                 close + 1)

\* The closing quotes a string that starts at lo can have: the quotes that
\* no escape covers.
ClosingQuotes(s, lo) ==
  {k \in lo..Len(s) : s[k] = DQ /\ EscapeRun(s, k) % 2 = 0}

\* The rest of a string whose opening quote is passed, lo being the position
\* after it: up to the first closing quote.
StringBody(s, lo) ==
  IF ClosingQuotes(s, lo) = {} THEN ParseFail
  ELSE StringUpTo(s, lo, SetMin(ClosingQuotes(s, lo)))

ParseString(s, i) ==
  IF i <= Len(s) /\ s[i] = DQ THEN StringBody(s, i + 1) ELSE ParseFail

\* A number at position i: -? (0 | [1-9][0-9]*) (. [0-9]+)? ([eE] [+-]? [0-9]+)?
ParseNumber(s, i) ==
  LET at(k) == IF k <= Len(s) THEN s[k] ELSE "end"
      int == IF at(i) = "-" THEN i + 1 ELSE i
      intEnd == IF at(int) = "0" THEN int + 1 ELSE SkipChars(s, int, DigitChars)
      fracEnd == IF at(intEnd) = "." THEN SkipChars(s, intEnd + 1, DigitChars)
                 ELSE intEnd
      fracOk == at(intEnd) # "." \/ fracEnd > intEnd + 1
      exp == IF at(fracEnd + 1) \in {"+", "-"} THEN fracEnd + 2 ELSE fracEnd + 1
      expEnd == IF at(fracEnd) \in {"e", "E"} THEN SkipChars(s, exp, DigitChars)
                ELSE fracEnd
      expOk == at(fracEnd) \notin {"e", "E"} \/ expEnd > exp
  IN  IF intEnd > int /\ fracOk /\ expOk
        THEN ParseOk(JNum(Sub(s, i, expEnd - 1)), expEnd)
        ELSE ParseFail

ParseLiteral(s, i, word, v) ==
  IF i + Len(word) - 1 <= Len(s) /\ Sub(s, i, i + Len(word) - 1) = word
    THEN ParseOk(v, i + Len(word))
    ELSE ParseFail

RECURSIVE ParseValue(_, _)
RECURSIVE ParseElements(_, _, _)
RECURSIVE ParseMembers(_, _, _)

\* The elements of an array from position j (white space skipped), up to and
\* including its closing bracket.
ParseElements(s, j, acc) ==
  LET v == ParseValue(s, j)
      k == SkipChars(s, v.next, JsonWhiteSpace)
  IN  IF ~v.ok \/ k > Len(s) THEN ParseFail
      ELSE IF s[k] = "," THEN
        ParseElements(s, SkipChars(s, k + 1, JsonWhiteSpace), Append(acc, v.val))
      ELSE IF s[k] = "]" THEN ParseOk(JArr(Append(acc, v.val)), k + 1)
      ELSE ParseFail

\* The members of an object from position j (white space skipped), up to and
\* including its closing brace.
ParseMembers(s, j, acc) ==
  LET key == ParseString(s, j)
      colon == SkipChars(s, key.next, JsonWhiteSpace)
      v == ParseValue(s, SkipChars(s, colon + 1, JsonWhiteSpace))
      k == SkipChars(s, v.next, JsonWhiteSpace)
  IN  IF ~key.ok \/ colon > Len(s) THEN ParseFail
      ELSE IF s[colon] # ":" THEN ParseFail
      ELSE IF ~v.ok \/ k > Len(s) THEN ParseFail
      ELSE IF s[k] = "," THEN
        ParseMembers(s, SkipChars(s, k + 1, JsonWhiteSpace),
                     PutMember(acc, key.val.text, v.val))
      ELSE IF s[k] = "}" THEN
        ParseOk(JObj(PutMember(acc, key.val.text, v.val)), k + 1)
      ELSE ParseFail

\* The JSON value that starts at position i.
ParseValue(s, i) ==
  IF i > Len(s) THEN ParseFail
  ELSE IF s[i] = "{" THEN
    LET j == SkipChars(s, i + 1, JsonWhiteSpace)
    IN  IF j <= Len(s) /\ s[j] = "}" THEN ParseOk(JObj(<<>>), j + 1)
        ELSE ParseMembers(s, j, <<>>)
  ELSE IF s[i] = "[" THEN
    LET j == SkipChars(s, i + 1, JsonWhiteSpace)
    IN  IF j <= Len(s) /\ s[j] = "]" THEN ParseOk(JArr(<<>>), j + 1)
        ELSE ParseElements(s, j, <<>>)
  ELSE IF s[i] = DQ THEN ParseString(s, i)
  ELSE IF s[i] = "t" THEN ParseLiteral(s, i, <<"t", "r", "u", "e">>,
                                       [kind |-> "true", text |-> <<>>, items |-> <<>>])
  ELSE IF s[i] = "f" THEN ParseLiteral(s, i, <<"f", "a", "l", "s", "e">>,
                                       [kind |-> "false", text |-> <<>>, items |-> <<>>])
  ELSE IF s[i] = "n" THEN ParseLiteral(s, i, <<"n", "u", "l", "l">>, JNull)
  ELSE ParseNumber(s, i)

\* What JSON.parse(s) comes to when v is the value read at the start of s:
\* only white space may follow it.
WholeText(s, v) ==
  IF v.ok /\ SkipChars(s, v.next, JsonWhiteSpace) = Len(s) + 1
    THEN [ok |-> TRUE, val |-> v.val]
    ELSE [ok |-> FALSE, val |-> JNull]

\* JSON.parse(s): ok is FALSE where JSON.parse throws a SyntaxError.
JSONParse(s) == WholeText(s, ParseValue(s, SkipChars(s, 1, JsonWhiteSpace)))

\* ------------------------------------------------------------------------
\* parseJsonFromText
\* ------------------------------------------------------------------------

Fence == <<BT, BT, BT>>

\* jsonStr.match(fenceRegex), /^```(\w*)?\s*\n?(.*?)\n?\s*```$/s: whether the
\* whole of s matches.  The opening and the closing fence may not overlap.
FenceMatches(s) ==
  Len(s) >= 2 * Len(Fence) /\ StartsWith(s, Fence) /\ EndsWith(s, Fence)

\* fenceMatch[2] of a matching s.  (\w*)? and \s* are greedy and take every
\* word character and then every white space after the opening fence (the
\* closing fence stops both, so the first attempt succeeds and nothing is
\* given back); (.*?) is lazy and ends at the first position from which only
\* white space precedes the closing fence.
FenceGroup2(s) ==
  LET tagEnd == SkipChars(s, Len(Fence) + 1, WordChars)
      from == SkipChars(s, tagEnd, JsWhiteSpace)
      closing == Len(s) - Len(Fence) + 1
      to == SkipCharsBack(s, closing - 1, JsWhiteSpace)
  IN  IF to < from THEN <<>> ELSE Sub(s, from, to)

\* Lines 57-62: trim, then the interior of a whole-string fence when the
\* match has a non-empty second group.
StripFence(t) ==
  LET jsonStr == Trim(t)
  IN  IF FenceMatches(jsonStr) /\ FenceGroup2(jsonStr) # <<>>
        THEN Trim(FenceGroup2(jsonStr))
        ELSE jsonStr

\* A quote is taken to be escaped by no backslash at all.
BackslashCountNone(content, i) == 0

\* Lines 81-88: the number of backslashes right before position i.
BackslashCount(content, i) == (i - 1) - SkipCharsBack(content, i - 1, {BSL})

\* Lines 108-126 of one turn of the loop: the character is in the buffer,
\* inString and depth are brought up to date, obj is what JSON.parse(buffer)
\* comes to.
ScanClose(st, char, inString, depth, buffer, obj) ==
  IF ~inString /\ depth = 0 /\ char = "}" THEN
    IF StartsWith(Trim(buffer), <<"{">>) THEN
      IF obj.ok
        THEN [extracted |-> Append(st.extracted, obj.val), buffer |-> <<>>,
              depth |-> depth, inString |-> inString]
        ELSE [extracted |-> st.extracted, buffer |-> buffer,
              depth |-> depth, inString |-> inString]
    ELSE [extracted |-> st.extracted, buffer |-> <<>>,
          depth |-> depth, inString |-> inString]
  ELSE IF ~inString /\ depth = 0 /\ char = "," THEN
    [extracted |-> st.extracted, buffer |-> <<>>,
     depth |-> depth, inString |-> inString]
  ELSE [extracted |-> st.extracted, buffer |-> buffer,
        depth |-> depth, inString |-> inString]

\* Lines 95-104 of one turn of the loop: the depth after char.
ScanDepth(st, char, inString) ==
  IF inString THEN st.depth
  ELSE IF char = "{" THEN st.depth + 1
  ELSE IF char = "}" THEN st.depth - 1
  ELSE st.depth

\* Lines 97-98 and 106: the buffer, emptied by a brace that opens at depth
\* 0, with char added.
ScanBuffer(st, char, inString) ==
  Append(IF ~inString /\ char = "{" /\ st.depth = 0 THEN <<>> ELSE st.buffer, char)

\* Lines 95-126, inString being brought up to date by lines 80-93.
ScanBody(st, char, inString) ==
  ScanClose(st, char, inString, ScanDepth(st, char, inString),
            ScanBuffer(st, char, inString),
            JSONParse(ScanBuffer(st, char, inString)))

\* One turn of the loop of lines 77-127, on character i of content.
ScanStep(content, i, st) ==
  ScanBody(st, content[i],
           IF content[i] = DQ /\ BackslashCount(content, i) % 2 = 0
             THEN ~st.inString ELSE st.inString)

\* The loop of lines 77-127 over the characters lo..hi of content, from
\* state st: over the first half, and from the state that leaves, over the
\* second half.
RECURSIVE ScanRange(_, _, _, _)
ScanRange(content, lo, hi, st) ==
  IF lo > hi THEN st
  ELSE IF lo = hi THEN ScanStep(content, lo, st)
  ELSE LET half == ScanRange(content, lo, (lo + hi) \div 2, st)
       IN  IF half.depth = half.depth
             THEN ScanRange(content, ((lo + hi) \div 2) + 1, hi, half)
             ELSE half

\* Lines 71-127: the objects the iterative parse extracts from jsonStr, which
\* starts with [ and ends with ].
ExtractObjects(jsonStr) ==
  ScanRange(Trim(Sub(jsonStr, 2, Len(jsonStr) - 1)), 1,
            Len(Trim(Sub(jsonStr, 2, Len(jsonStr) - 1))),
            [extracted |-> <<>>, buffer |-> <<>>, depth |-> 0, inString |-> FALSE]).extracted

\* Line 70.
IsArrayShaped(jsonStr) ==
  StartsWith(jsonStr, <<"[">>) /\ EndsWith(jsonStr, <<"]">>)

\* Positions of s after from that hold character c.
Later(s, from, c) == {j \in (from + 1)..Len(s) : s[j] = c}

\* Line 139, jsonStr.match(/(\[[\s\S]*\]|\{[\s\S]*\})/s): the leftmost
\* position where one of the two alternatives matches, the bracketed one
\* tried first; the match runs to the last closer of its kind.  The empty
\* sequence when nothing matches.
LooseMatch(s) ==
  LET closer(i) == IF s[i] = "[" THEN "]" ELSE "}"
      starts == {i \in 1..Len(s) :
                   s[i] \in {"[", "{"} /\ Later(s, i, closer(i)) # {}}
  IN  IF starts = {} THEN <<>>
      ELSE LET i == SetMin(starts)
           IN  Sub(s, i, SetMax(Later(s, i, closer(i))))

\* What a call does: it returns a value or throws an Error with a message.
Returned(v) == [threw |-> FALSE, message |-> "", value |-> v]

Thrown(m) == [threw |-> TRUE, message |-> m, value |-> JNull]

\* Lines 141-147 without the try: the SyntaxError of JSON.parse leaves
\* parseJsonFromText.
ParsedOrThrown(parsed) ==
  IF parsed.ok THEN [threw |-> FALSE, message |-> "", value |-> parsed.val]
  ELSE [threw |-> TRUE, message |-> "SyntaxError", value |-> JNull]

\* Lines 141-147: JSON.parse inside try, whose catch block falls through to
\* line 150.
ParsedOrNull(parsed) ==
  IF parsed.ok THEN Returned(parsed.val) ELSE Returned(JNull)

\* Lines 137-150: the loose match and its parse.
LooseParse(jsonLooseMatch) ==
  IF jsonLooseMatch # <<>> THEN ParsedOrNull(JSONParse(jsonLooseMatch))
  ELSE Returned(JNull)

LooseAttempt(jsonStr) == LooseParse(LooseMatch(jsonStr))

\* Lines 69-135: the iterative parse when an array is expected and jsonStr is
\* array shaped; the empty sequence otherwise.
IterativeAttempt(jsonStr, isArrayExpected) ==
  IF isArrayExpected /\ IsArrayShaped(jsonStr)
    THEN ExtractObjects(jsonStr) ELSE <<>>

\* Lines 66-151: the catch block of the direct parse, extractedObjects being
\* what the iterative parse extracted.
Fallbacks(jsonStr, extractedObjects) ==
  IF Len(extractedObjects) > 0 THEN Returned(JArr(extractedObjects))
  ELSE LooseAttempt(jsonStr)

\* Lines 64-151: direct is what JSON.parse(jsonStr) comes to at line 65.
ParseStripped(jsonStr, isArrayExpected, direct) ==
  IF direct.ok THEN Returned(direct.val)
  ELSE Fallbacks(jsonStr, IterativeAttempt(jsonStr, isArrayExpected))

ParseFrom(jsonStr, isArrayExpected) ==
  ParseStripped(jsonStr, isArrayExpected, JSONParse(jsonStr))

\* parseJsonFromText(text, isArrayExpected), lines 21-152, for a text that is
\* a string.  null is JNull.
parseJsonFromText(t, isArrayExpected) == ParseFrom(StripFence(t), isArrayExpected)

\* ------------------------------------------------------------------------
\* State
\* ------------------------------------------------------------------------

VARIABLES
  apiKey,       \* import.meta.env.VITE_GEMINI_API_KEY is set
  ai,           \* geminiService.ts line 6: the client is constructed
  calls,        \* the calls of generateDeals and verifyDeal that await the oracle
  settled,      \* the call that ended last, with what it came to
  oracleLog,    \* the requests handed to models.generateContent, in order
  now,          \* Date.now()
  mounted,      \* App: the mount effect of lines 68-72 has run
  deals, isLoading, error, apiKeyMissing, groundingMetadata,
  selectedDealForVerification, verificationData, isVerifying,
  decInput,     \* decoder harness: how the input text is made
  decText,      \* decoder harness: text
  decPc,        \* decoder harness: "ready" before the call, "done" after
  decResult,    \* decoder harness: what parseJsonFromText did
  sourcesView,     \* what renderGroundingSources returned at the last render
  modalDeal,       \* PriceHistoryModal: the deal prop of the last render
  predictionMemo,  \* PriceHistoryModal: the state of the useMemo hook
  predictionLog    \* history: the prediction first shown for each deal id

serviceVars == <<apiKey, ai, calls, settled, oracleLog, now>>

appVars == <<mounted, deals, isLoading, error, apiKeyMissing, groundingMetadata,
             selectedDealForVerification, verificationData, isVerifying>>

decVars == <<decInput, decText, decPc, decResult>>

viewVars == <<sourcesView, modalDeal, predictionMemo, predictionLog>>

vars == <<serviceVars, appVars, decVars, viewVars>>

\* ------------------------------------------------------------------------
\* The decoder on bounded inputs
\* ------------------------------------------------------------------------

\* {"title":"A"}
ObjTitleA == <<"{", "\"", "t", "i", "t", "l", "e", "\"", ":", "\"", "A", "\"", "}">>

\* {"title":"B"}
ObjTitleB == <<"{", "\"", "t", "i", "t", "l", "e", "\"", ":", "\"", "B", "\"", "}">>

\* {"a":{"b":1}}
ObjNested == <<"{", "\"", "a", "\"", ":", "{", "\"", "b", "\"", ":", "1", "}", "}">>

\* {"a":"\"}"}
ObjEscQuote == <<"{", "\"", "a", "\"", ":", "\"", "\\", "\"", "}", "\"", "}">>

\* Well-formed objects: plain, nested, and with strings that hold braces and
\* a comma ({"a":"},{"}), an escaped quote and an escaped backslash
\* ({"a":"\\"}).
SampleObjects ==
  {ObjTitleA, ObjTitleB, ObjNested, ObjEscQuote,
   <<"{", "\"", "a", "\"", ":", "\"", "}", ",", "{", "\"", "}">>,
   <<"{", "\"", "a", "\"", ":", "\"", "\\", "\\", "\"", "}">>}

\* The most objects an input array holds.
MaxObjects == 2

\* The longest text of the family of all texts over RawAlphabet.
MaxRawLen == 3

RawAlphabet == {"[", "]", "{", "}", DQ, " ", "1", ","}

SeqsUpTo(S, n) == UNION {[1..k -> S] : k \in 0..n}

\* The texts an element cut short can leave: every proper prefix of a sample
\* object, the empty one included.
TruncatedElements ==
  UNION {{SubSeq(o, 1, k) : k \in 0..(Len(o) - 1)} : o \in SampleObjects}

RECURSIVE Join(_, _)
Join(texts, sep) ==
  IF Len(texts) = 0 THEN <<>>
  ELSE IF Len(texts) = 1 THEN texts[1]
  ELSE texts[1] \o sep \o Join(Tail(texts), sep)

\* JSON texts of every kind.
SampleJson ==
  {ObjTitleA, <<"[">> \o ObjTitleA \o <<"]">>, <<"[", "]">>, <<DQ, "a", DQ>>,
   <<"1">>, <<"-", "1">>, <<"t", "r", "u", "e">>, <<"f", "a", "l", "s", "e">>,
   <<"n", "u", "l", "l">>}

NoInput == [family |-> "none", objs |-> <<>>, tail |-> <<>>, opening |-> <<>>,
            closing |-> <<>>, json |-> <<>>, expectArray |-> FALSE]

\* truncated: [ objects , cut element          (no closing bracket)
\* salvage:   [ objects , cut element or malformed content that holds no
\*            well-formed object ]
\* mixed:     [ cut element or malformed content , objects ]
\* fenced:    a JSON text inside one whole-string fence; after the opening
\*            fence nothing, a language tag or white space, before the
\*            closing fence nothing or a line feed
\* raw:       any text over RawAlphabet
DecodeInputs ==
  {[NoInput EXCEPT !.family = "truncated", !.objs = os, !.tail = t,
                   !.expectArray = e] :
     os \in SeqsUpTo(SampleObjects, MaxObjects),
     t \in TruncatedElements \ {<<>>}, e \in BOOLEAN}
  \cup
  {[NoInput EXCEPT !.family = f, !.objs = os, !.tail = t,
                   !.expectArray = e] :
     f \in {"salvage", "mixed"},
     os \in SeqsUpTo(SampleObjects, MaxObjects),
     t \in TruncatedElements
            \cup {<<"}">>, <<"x">>, <<DQ>>, <<"{", "]", "}">>, <<"[", "{">>,
                  <<"{", "{", "}">>},
     e \in BOOLEAN}
  \cup
  {[NoInput EXCEPT !.family = "fenced", !.opening = o, !.closing = c,
                   !.json = j, !.expectArray = e] :
     o \in {<<>>, <<LF>>, <<" ">>, <<"j", "s", "o", "n">>,
            <<"j", "s", "o", "n", LF>>, <<"j", "s", "o", "n", " ">>},
     c \in {<<>>, <<LF>>}, j \in SampleJson, e \in BOOLEAN}
  \cup
  {[NoInput EXCEPT !.family = "raw", !.json = r, !.expectArray = e] :
     r \in SeqsUpTo(RawAlphabet, MaxRawLen), e \in BOOLEAN}

\* The text of an input.
TextOf(in) ==
  CASE in.family = "truncated" ->
         <<"[">> \o Join(Append(in.objs, in.tail), <<",">>)
    [] in.family = "salvage" ->
         <<"[">> \o Join(Append(in.objs, in.tail), <<",">>) \o <<"]">>
    [] in.family = "mixed" ->
         <<"[">> \o Join(<<in.tail>> \o in.objs, <<",">>) \o <<"]">>
    [] in.family = "fenced" ->
         Fence \o in.opening \o in.json \o in.closing \o Fence
    [] OTHER -> in.json

\* JSON.parse of each text of a sequence of well-formed texts.
ParsedAll(texts) == [n \in 1..Len(texts) |-> JSONParse(texts[n]).val]

\* ------------------------------------------------------------------------
\* geminiService.ts: the credential gate, generateDeals, verifyDeal
\* ------------------------------------------------------------------------

INITIAL_DEALS_COUNT == 6

API_KEY_MISSING == "API_KEY_MISSING"

GenerateFailedMessage == "Failed to generate deals from AI."

\* title
KeyTitle == <<"t", "i", "t", "l", "e">>

\* id
KeyId == <<"i", "d">>

\* imageUrl
KeyImageUrl == <<"i", "m", "a", "g", "e", "U", "r", "l">>

\* summary
KeySummary == <<"s", "u", "m", "m", "a", "r", "y">>

\* score
KeyScore == <<"s", "c", "o", "r", "e">>

\* { summary: notice, score: 0 }.  A notice is kept whole, as one character.
Verification(notice, score) ==
  JObj(<<JMember(KeySummary, JStr(<<notice>>)), JMember(KeyScore, JNum(<<score>>))>>)

\* A format-error notice that carries no score.
FormatErrorNoScore ==
  JObj(<<JMember(KeySummary, JStr(<<"AI could not verify this deal due to response format error.">>))>>)

FormatErrorVerification ==
  Verification("AI could not verify this deal due to response format error.", "0")

ConnectFailedVerification ==
  Verification("Failed to connect to AI for verification.", "0")

\* initializeAi without the check of line 13.
InitializeAiUnchecked == FALSE

\* initializeAi, lines 9-19, throws Error("API_KEY_MISSING"): no client yet
\* and no key in the environment.
InitializeAiThrows == ~ai /\ ~apiKey

\* !v of a JavaScript value: null, false, 0 and "" are falsy.
Falsy(v) ==
  \/ v.kind \in {"null", "false"}
  \/ v.kind = "string" /\ v.text = <<>>
  \/ /\ v.kind = "number"
     /\ LET e == SetMin({k \in 1..(Len(v.text) + 1) :
                           k = Len(v.text) + 1 \/ v.text[k] \in {"e", "E"}})
        IN  \A k \in 1..(e - 1) : v.text[k] \in {"0", "-", "."}

NoGrounding == [defined |-> FALSE, chunks |-> <<>>]

\* What the oracle call of a call came to: nothing yet, a response with its
\* text and grounding metadata, or a failure with its message.
NoResp == [kind |-> "none", text |-> <<>>, message |-> "", grounding |-> NoGrounding]

TextResp(t, g) == [kind |-> "text", text |-> t, message |-> "", grounding |-> g]

ErrorResp(m) == [kind |-> "error", text |-> <<>>, message |-> m, grounding |-> NoGrounding]

NoPrefs == [keywords |-> "", categories |-> <<>>, location |-> ""]

\* The request of generateDeals when line 202 is left out.
GenerateRequestKeepsMimeType(prefs, useSearchGrounding) ==
  [fn |-> "generateDeals",
   prompt |-> IF useSearchGrounding THEN "search" ELSE "generation",
   prefs |-> prefs,
   responseMimeType |-> TRUE,
   tools |-> useSearchGrounding]

\* Lines 183-203: the request generateDeals hands to the oracle.
GenerateRequest(prefs, useSearchGrounding) ==
  [fn |-> "generateDeals",
   prompt |-> IF useSearchGrounding THEN "search" ELSE "generation",
   prefs |-> prefs,
   responseMimeType |-> ~useSearchGrounding,
   tools |-> useSearchGrounding]

\* Lines 256-260: the request verifyDeal hands to the oracle.
VerifyRequest(deal) ==
  [fn |-> "verifyDeal", prompt |-> "verification", prefs |-> NoPrefs,
   responseMimeType |-> TRUE, tools |-> FALSE]

\* { ...deal }: the own enumerable properties of a decoded item.
SpreadMembers(deal) ==
  CASE deal.kind = "object" -> deal.items
    [] deal.kind = "array" ->
         [n \in 1..Len(deal.items) |-> JMember(<<ToString(n - 1)>>, deal.items[n])]
    [] deal.kind = "string" ->
         [n \in 1..Len(deal.text) |-> JMember(<<ToString(n - 1)>>, JStr(<<deal.text[n]>>))]
    [] OTHER -> <<>>

\* String(v) for the values a title can be.
ToText(v) ==
  CASE v.kind = "string" -> v.text
    [] v.kind = "number" -> v.text
    [] v.kind = "true" -> <<"t", "r", "u", "e">>
    [] v.kind = "object" -> <<"[object Object]">>
    [] OTHER -> <<"[", v.kind, "]">>

\* encodeURIComponent: letters, digits and - _ . ! ~ * ' ( ) stay, any other
\* character is escaped (named here by the character it escapes).
EncodeURIComponent(chars) ==
  [n \in 1..Len(chars) |->
     IF chars[n] \in WordChars \cup {"-", ".", "!", "~", "*", "'", "(", ")"}
       THEN chars[n] ELSE "%" \o chars[n]]

\* Line 217: the image reference of the item at index (0-based).
ImageUrl(deal, index) ==
  LET seed == IF HasMember(deal, KeyTitle) /\ ~Falsy(GetMember(deal, KeyTitle))
                THEN ToText(GetMember(deal, KeyTitle))
                ELSE <<"d", "e", "a", "l", "-", ToString(index)>>
  IN  JStr(<<"https://picsum.photos/seed/">> \o EncodeURIComponent(seed)
           \o <<"/300/200">>)

\* The deal made of an item whose own id, when it has one, is kept.
MapDealKeepsId(deal, index, t) ==
  JObj(PutMember(PutMember(SpreadMembers(deal), KeyId,
                           IF HasMember(deal, KeyId) THEN GetMember(deal, KeyId)
                           ELSE JStr(<<ToString(t), "-", ToString(index)>>)),
                 KeyImageUrl, ImageUrl(deal, index)))

\* Lines 214-218: the deal made of the item at index (0-based) at time t.
MapDeal(deal, index, t) ==
  JObj(PutMember(PutMember(SpreadMembers(deal),
                           KeyId, JStr(<<ToString(t), "-", ToString(index)>>)),
                 KeyImageUrl, ImageUrl(deal, index)))

\* Lines 214-218 throw a TypeError: (parsedDeals || []).map is not a function
\* when the value is truthy and no array, and deal.title cannot be read of
\* a null item.
MapThrows(parsedDeals) ==
  /\ ~Falsy(parsedDeals)
  /\ \/ parsedDeals.kind # "array"
     \/ \E n \in 1..Len(parsedDeals.items) : parsedDeals.items[n].kind = "null"

\* Lines 228-232: the catch block of generateDeals on an error with message m.
GenerateCatch(m) ==
  IF m = API_KEY_MISSING THEN Thrown(m) ELSE Thrown(GenerateFailedMessage)

\* Lines 214-226: the deals made, at time t, of what parseJsonFromText
\* returned.
GenerateMapped(parsedDeals, grounding, t) ==
  IF MapThrows(parsedDeals) THEN GenerateCatch("TypeError")
  ELSE IF Falsy(parsedDeals)
    THEN Returned([deals |-> <<>>, groundingMetadata |-> grounding])
  ELSE Returned([deals |-> [n \in 1..Len(parsedDeals.items) |->
                              MapDeal(parsedDeals.items[n], n - 1, t)],
                 groundingMetadata |-> grounding])

GenerateParsed(parsed, grounding, t) ==
  IF parsed.threw THEN GenerateCatch(parsed.message)
  ELSE GenerateMapped(parsed.value, grounding, t)

\* generateDeals, lines 206-232, after its await: the oracle call failed or
\* returned a text, decoded at time t.
generateDeals(call, t) ==
  IF call.resp.kind = "error" THEN GenerateCatch(call.resp.message)
  ELSE GenerateParsed(parseJsonFromText(call.resp.text, TRUE), call.resp.grounding, t)

\* Lines 269-273: the catch block of verifyDeal on an error with message m.
VerifyCatch(m) ==
  IF m = API_KEY_MISSING THEN Thrown(m) ELSE Returned(ConnectFailedVerification)

\* Lines 262-267.
VerifyParsed(parsed) ==
  IF parsed.threw THEN VerifyCatch(parsed.message)
  ELSE IF Falsy(parsed.value) THEN Returned(FormatErrorVerification)
  ELSE Returned(parsed.value)

\* verifyDeal, lines 256-273, after its await.
verifyDeal(call) ==
  IF call.resp.kind = "error" THEN VerifyCatch(call.resp.message)
  ELSE VerifyParsed(parseJsonFromText(call.resp.text, FALSE))

\* Lines 156 and 238: initializeAi throws inside the try block of fn, whose
\* catch block rethrows.
Gated(fn) ==
  IF fn = "generateDeals" THEN GenerateCatch(API_KEY_MISSING)
  ELSE VerifyCatch(API_KEY_MISSING)

Pending == [threw |-> FALSE, message |-> "pending", value |-> JNull]

\* The latest time Date.now() shows.
MaxClock == 1

\* What a call comes to, at time t: its promise is fulfilled with a value or
\* rejected with an Error.
Outcome(call, t) ==
  IF call.fn = "generateDeals" THEN generateDeals(call, t) ELSE verifyDeal(call)

\* No call has ended yet.
NoCall == [fn |-> "none", prefs |-> NoPrefs, useSearchGrounding |-> FALSE,
           deal |-> JNull, called |-> FALSE, resp |-> NoResp, outcome |-> Pending]

\* Without the bounded sequence s[i].
Without(s, i) == [n \in 1..(Len(s) - 1) |-> IF n < i THEN s[n] ELSE s[n + 1]]

\* A call of fn starts: initializeAi, then the request is handed to the
\* oracle and the call awaits it.  When initializeAi throws, no request is
\* made and the call is over at once, in its catch block.
StartCall(fn, prefs, useSearchGrounding, deal, request) ==
  LET call == [fn |-> fn, prefs |-> prefs,
               useSearchGrounding |-> useSearchGrounding, deal |-> deal,
               called |-> TRUE, resp |-> NoResp, outcome |-> Pending]
  IN  /\ IF InitializeAiThrows
           THEN /\ settled' = [call EXCEPT !.called = FALSE, !.outcome = Gated(fn)]
                /\ UNCHANGED <<calls, oracleLog>>
           ELSE /\ calls' = Append(calls, call)
                /\ oracleLog' = Append(oracleLog, request)
                /\ UNCHANGED settled
      /\ ai' = (ai \/ apiKey)
      /\ UNCHANGED <<apiKey, now>>

\* models.generateContent settles for call i, with a response or a failure,
\* and the call resumes after its await and runs to its end, at time t.
Settle(i, resp, t) ==
  /\ t >= now
  /\ now' = t
  /\ settled' = [calls[i] EXCEPT !.resp = resp,
                                 !.outcome = Outcome([calls[i] EXCEPT !.resp = resp], t)]
  /\ calls' = Without(calls, i)
  /\ UNCHANGED <<apiKey, ai, oracleLog>>

\* ------------------------------------------------------------------------
\* What the oracle may answer
\* ------------------------------------------------------------------------

\* [{"title":"A"},{"title":"B","id":"x","imageUrl":"u"}]
GenTextTwoDeals == <<"[", "{", "\"", "t", "i", "t", "l", "e", "\"", ":", "\"", "A", "\"", "}", ",", "{", "\"", "t", "i", "t", "l", "e", "\"", ":", "\"", "B", "\"", ",", "\"", "i", "d", "\"", ":", "\"", "x", "\"", ",", "\"", "i", "m", "a", "g", "e", "U", "r", "l", "\"", ":", "\"", "u", "\"", "}", "]">>

\* oops
TextOops == <<"o", "o", "p", "s">>

\* Messages a failure of generateContent may carry.
OracleMessages == {API_KEY_MISSING, "fetch failed", "quota exceeded"}

\* chunk.web and chunk.retrievedContext.  An empty uri stands for a uri that
\* is undefined or "", an empty title likewise.
NoPart == [defined |-> FALSE, uri |-> <<>>, title |-> ""]

Part(uri, title) == [defined |-> TRUE, uri |-> uri, title |-> title]

Chunk(web, retrievedContext) == [web |-> web, retrievedContext |-> retrievedContext]

\* https://a
UriHttpsA == <<"h", "t", "t", "p", "s", ":", "/", "/", "a">>

SomeGrounding == [defined |-> TRUE, chunks |-> <<Chunk(Part(UriHttpsA, "A"), NoPart)>>]

\* What generateContent may answer to generateDeals: a text (a well-formed
\* array, a single object, an array cut short as in
\* [{"title":"A"},{"title":"B" , an array of a null, prose, nothing), a
\* well-formed array with grounding metadata, or a failure.
GenerateResponses ==
  {TextResp(t, NoGrounding) :
     t \in {GenTextTwoDeals, ObjTitleA,
            <<"[">> \o ObjTitleA \o <<",">> \o SubSeq(ObjTitleB, 1, Len(ObjTitleB) - 1),
            <<"[", "n", "u", "l", "l", "]">>, TextOops, <<>>}}
  \cup {TextResp(GenTextTwoDeals, SomeGrounding)}
  \cup {ErrorResp(m) : m \in OracleMessages}

\* What generateContent may answer to verifyDeal: a text (the verification
\* {"summary":"ok","score":4}, prose, an array, the number 0) or a failure.
VerifyResponses ==
  {TextResp(t, NoGrounding) :
     t \in {<<"{", "\"", "s", "u", "m", "m", "a", "r", "y", "\"", ":", "\"", "o", "k", "\"", ",", "\"", "s", "c", "o", "r", "e", "\"", ":", "4", "}">>,
            TextOops, <<"[", "1", "]">>, <<"0">>}}
  \cup {ErrorResp(m) : m \in OracleMessages}

ResponsesTo(call) ==
  IF call.fn = "generateDeals" THEN GenerateResponses ELSE VerifyResponses

SamplePrefs == {[keywords |-> "laptop", categories |-> <<"Books">>, location |-> ""]}

SampleDeal == JObj(<<JMember(KeyId, JStr(<<"0", "-", "0">>)), JMember(KeyTitle, JStr(<<"A">>))>>)

\* ------------------------------------------------------------------------
\* The service under any caller
\* ------------------------------------------------------------------------

\* The most requests the oracle gets in one run.
MaxCalls == 3

CallGenerateDeals(prefs, useSearchGrounding) ==
  /\ InitializeAiThrows \/ Len(oracleLog) < MaxCalls
  /\ StartCall("generateDeals", prefs, useSearchGrounding, JNull,
               GenerateRequest(prefs, useSearchGrounding))
  /\ UNCHANGED <<appVars, decVars, viewVars>>

CallVerifyDeal(deal) ==
  /\ InitializeAiThrows \/ Len(oracleLog) < MaxCalls
  /\ StartCall("verifyDeal", NoPrefs, FALSE, deal, VerifyRequest(deal))
  /\ UNCHANGED <<appVars, decVars, viewVars>>

OracleSettles(i, resp, t) ==
  /\ Settle(i, resp, t)
  /\ UNCHANGED <<appVars, decVars, viewVars>>

\* ------------------------------------------------------------------------
\* App
\* ------------------------------------------------------------------------

MOCK_API_KEY_NOTICE ==
  "API_KEY environment variable not found. Using mock data. For live AI features, please ensure the API_KEY is configured in your environment."

GEMINI_ERROR_MESSAGE ==
  "Could not connect to AI services. Please check your API key or network connection."

DEAL_CATEGORIES ==
  <<"Electronics", "Fashion", "Home & Kitchen", "Sports & Outdoors", "Books",
    "Groceries", "Beauty & Personal Care", "Toys & Games", "Automotive", "Travel">>

\* error === null
NoError == <<>>

\* Lines 52-53: what the two Math.random() of one placeholder deal come to,
\* after toFixed(2): the original price lies in 50.00..150.00, the discounted
\* one in 20.00..70.00, and the two are drawn apart.
PriceDraws ==
  {[originalPrice |-> "$50.00", discountedPrice |-> "$20.00"],
   [originalPrice |-> "$50.00", discountedPrice |-> "$69.99"],
   [originalPrice |-> "$149.99", discountedPrice |-> "$20.00"]}

\* The draws of the placeholder deals of one fetch: all alike, or the first
\* deal apart from the others.
RandomDraws ==
  {[i \in 0..(INITIAL_DEALS_COUNT - 1) |-> IF i = 0 THEN d ELSE e] :
     d \in PriceDraws, e \in PriceDraws}

\* The draws a fetch makes: none unless it installs the placeholder deals.
DrawsOf(outcome) ==
  IF outcome.threw /\ outcome.message = API_KEY_MISSING THEN RandomDraws
  ELSE {[i \in 0..(INITIAL_DEALS_COUNT - 1) |-> CHOOSE d \in PriceDraws : TRUE]}

\* Lines 48-57: the placeholder deal at index i.
PlaceholderDeal(i, draw) ==
  JObj(<<JMember(KeyId, JStr(<<"m", "o", "c", "k", "-", ToString(i)>>)),
         JMember(KeyTitle, JStr(<<"Mock Deal Title ", ToString(i + 1)>>)),
         JMember(<<"description">>, JStr(<<"This is a placeholder deal because the AI service is unavailable. Please configure API_KEY.">>)),
         JMember(<<"originalPrice">>, JStr(<<draw.originalPrice>>)),
         JMember(<<"discountedPrice">>, JStr(<<draw.discountedPrice>>)),
         JMember(<<"merchant">>, JStr(<<"Mock Merchant">>)),
         JMember(<<"category">>, JStr(<<DEAL_CATEGORIES[(i % Len(DEAL_CATEGORIES)) + 1]>>)),
         JMember(KeyImageUrl, JStr(<<"https://picsum.photos/seed/mockdeal", ToString(i), "/300/200">>))>>)

\* The placeholder list made of the first placeholder deal over and over.
PlaceholderDealsAllFirst(draws) ==
  [n \in 1..INITIAL_DEALS_COUNT |-> PlaceholderDeal(0, draws[0])]

PlaceholderDeals(draws) ==
  [n \in 1..INITIAL_DEALS_COUNT |-> PlaceholderDeal(n - 1, draws[n - 1])]

\* setDeals that keeps the deals on display in front of the new ones.
SetDealsMerged(fetchedDeals) == deals \o fetchedDeals

\* Lines 38, 48 and 60: the deals state after setDeals(fetchedDeals).
SetDeals(fetchedDeals) == fetchedDeals

\* fetchDeals after its await, lines 37-65, on what generateDeals came to.
\* It follows the three setters of lines 33-35 in the same task or in a
\* later one; either way they hold when it runs.
FetchContinues(outcome, draws) ==
  /\ isLoading' = FALSE
  /\ IF ~outcome.threw THEN
       /\ deals' = SetDeals(outcome.value.deals)
       /\ groundingMetadata' = IF outcome.value.groundingMetadata.defined
                                 THEN outcome.value.groundingMetadata
                                 ELSE NoGrounding
       /\ error' = NoError
       /\ UNCHANGED apiKeyMissing
     ELSE IF outcome.message = API_KEY_MISSING THEN
       /\ apiKeyMissing' = TRUE
       /\ error' = <<MOCK_API_KEY_NOTICE>>
       /\ deals' = SetDeals(PlaceholderDeals(draws))
       /\ groundingMetadata' = NoGrounding
     ELSE
       /\ error' = <<GEMINI_ERROR_MESSAGE, " Details: ", outcome.message>>
       /\ deals' = SetDeals(<<>>)
       /\ groundingMetadata' = NoGrounding
       /\ UNCHANGED apiKeyMissing

\* fetchDeals(prefs, useSearchGrounding), lines 32-66, up to its await; to
\* its end when generateDeals fails before it awaits anything.
fetchDeals(prefs, useSearchGrounding) ==
  /\ InitializeAiThrows \/ Len(oracleLog) < MaxCalls
  /\ StartCall("generateDeals", prefs, useSearchGrounding, JNull,
               GenerateRequest(prefs, useSearchGrounding))
  /\ IF InitializeAiThrows
       THEN \E draws \in RandomDraws : FetchContinues(Gated("generateDeals"), draws)
       ELSE /\ isLoading' = TRUE
            /\ error' = NoError
            /\ groundingMetadata' = NoGrounding
            /\ UNCHANGED <<deals, apiKeyMissing>>
  /\ UNCHANGED <<selectedDealForVerification, verificationData, isVerifying>>

\* Lines 68-72: the effect that runs once, after the first render.
MountEffect ==
  /\ ~mounted
  /\ mounted' = TRUE
  /\ fetchDeals(NoPrefs, FALSE)
  /\ UNCHANGED <<decVars, viewVars>>

\* The two buttons of SearchBarAndFilters enabled whatever isLoading is.
SearchAlwaysEnabled == TRUE

\* part_001 lines 132 and 140: the two buttons of SearchBarAndFilters are
\* disabled while isLoading; the second is the submit button of the form, so
\* the Enter key submits nothing either.
SearchEnabled == ~isLoading

\* handleSearch, lines 74-77, from one of the two buttons of
\* SearchBarAndFilters.
HandleSearch(newPreferences, useSearchGrounding) ==
  /\ mounted
  /\ SearchEnabled
  /\ fetchDeals(newPreferences, useSearchGrounding)
  /\ UNCHANGED <<mounted, decVars, viewVars>>

\* The oracle settles for the generateDeals call i and fetchDeals resumes.
FetchSettles(i, resp, t) ==
  /\ calls[i].fn = "generateDeals"
  /\ Settle(i, resp, t)
  /\ \E draws \in DrawsOf(settled'.outcome) : FetchContinues(settled'.outcome, draws)
  /\ UNCHANGED <<mounted, selectedDealForVerification, verificationData, isVerifying,
                 decVars, viewVars>>

\* handleVerifyDeal after its await, lines 94-100.
VerifyContinues(outcome) ==
  /\ verificationData' = IF outcome.threw
                          THEN Verification("Failed to get verification from AI.", "0")
                          ELSE outcome.value
  /\ isVerifying' = FALSE

\* handleVerifyDeal(deals[n]), lines 84-101, from the card of a deal on
\* display (line 209: no card while isLoading), up to its await.
HandleVerifyDeal(n) ==
  /\ mounted
  /\ ~isLoading
  /\ n \in 1..Len(deals)
  /\ selectedDealForVerification' = deals[n]
  /\ IF apiKeyMissing THEN
       /\ verificationData' =
            Verification("AI Verification is unavailable. API_KEY is missing.", "0")
       /\ isVerifying' = FALSE
       /\ UNCHANGED serviceVars
     ELSE
       /\ InitializeAiThrows \/ Len(oracleLog) < MaxCalls
       /\ StartCall("verifyDeal", NoPrefs, FALSE, deals[n], VerifyRequest(deals[n]))
       /\ IF InitializeAiThrows
            THEN VerifyContinues(Gated("verifyDeal"))
            ELSE isVerifying' = TRUE /\ verificationData' = JNull
  /\ UNCHANGED <<mounted, deals, isLoading, error, apiKeyMissing, groundingMetadata,
                 decVars, viewVars>>

\* The oracle settles for the verifyDeal call i and handleVerifyDeal resumes.
VerifySettles(i, resp) ==
  /\ calls[i].fn = "verifyDeal"
  /\ Settle(i, resp, now)
  /\ VerifyContinues(settled'.outcome)
  /\ UNCHANGED <<mounted, deals, isLoading, error, apiKeyMissing, groundingMetadata,
                 selectedDealForVerification, decVars, viewVars>>

\* Line 239: onClose of the verification modal.
CloseVerificationModal ==
  /\ selectedDealForVerification # JNull
  /\ selectedDealForVerification' = JNull
  /\ UNCHANGED <<serviceVars, decVars, viewVars, mounted, deals, isLoading, error, apiKeyMissing,
                 groundingMetadata, verificationData, isVerifying>>

\* ------------------------------------------------------------------------
\* renderGroundingSources
\* ------------------------------------------------------------------------

\* What the URL parser strips from both ends of its input: C0 controls and
\* the space.
C0ControlOrSpace == {" ", "\n", "\t", "\r", "\f"}

\* The input of the URL parser once stripped at both ends and cleaned of
\* the tabs and newlines it holds anywhere.
UrlInput(uri) ==
  SelectSeq(Sub(uri, SkipChars(uri, 1, C0ControlOrSpace),
                SkipCharsBack(uri, Len(uri), C0ControlOrSpace)),
            LAMBDA c : c \notin {"\t", "\n", "\r"})

UpperCase ==
  <<"A", "B", "C", "D", "E", "F", "G", "H", "I", "J", "K", "L", "M",
    "N", "O", "P", "Q", "R", "S", "T", "U", "V", "W", "X", "Y", "Z">>

\* ASCII lowercase of the characters of s.
LowerAll(s) ==
  [n \in 1..Len(s) |->
     IF \E u \in 1..Len(UpperCase) : UpperCase[u] = s[n]
       THEN <<"a", "b", "c", "d", "e", "f", "g", "h", "i", "j", "k", "l", "m",
              "n", "o", "p", "q", "r", "s", "t", "u", "v", "w", "x", "y", "z">>[
              CHOOSE u \in 1..Len(UpperCase) : UpperCase[u] = s[n]]
       ELSE s[n]]

\* The characters a scheme may hold after its first letter.
SchemeChars == LetterChars \cup DigitChars \cup {"+", "-", "."}

\* The position of the colon that ends the scheme of s, 0 when s starts with
\* no scheme: a letter, then scheme characters, then the colon.
SchemeEnd(s) ==
  IF /\ Len(s) >= 1
     /\ s[1] \in LetterChars
     /\ SkipChars(s, 1, SchemeChars) <= Len(s)
     /\ s[SkipChars(s, 1, SchemeChars)] = ":"
    THEN SkipChars(s, 1, SchemeChars)
    ELSE 0

\* First position >= i of s that holds a character of set, Len(s) + 1 if none.
FindChars(s, i, set) ==
  SetMin({k \in i..(Len(s) + 1) : k = Len(s) + 1 \/ s[k] \in set})

UrlThrows == [threw |-> TRUE, protocol |-> <<>>]

UrlOk(scheme) == [threw |-> FALSE, protocol |-> Append(scheme, ":")]

\* The URL whose host is host: a TypeError when the host holds a forbidden
\* code point (of the characters an input can hold: space, form feed, < > ^
\* and |), or is empty where it may not be.
UrlWithHost(scheme, host, mayBeEmpty) ==
  IF \/ host = <<>> /\ ~mayBeEmpty
     \/ \E n \in 1..Len(host) : host[n] \in {" ", "\f", "<", ">", "^", "|"}
    THEN UrlThrows
    ELSE UrlOk(scheme)

\* The parse of s after its scheme, which ends at colon.  A special scheme
\* that needs a host (http, https, ftp, ws, wss; file, whose host may be
\* empty, is not among the inputs): any slashes and backslashes, then a host
\* that is not empty.  Another scheme: a host after //, else a path, which
\* may be anything.
UrlAfterScheme(s, colon, scheme) ==
  IF scheme \in {<<"h", "t", "t", "p">>, <<"h", "t", "t", "p", "s">>,
                 <<"f", "t", "p">>, <<"w", "s">>, <<"w", "s", "s">>} THEN
    UrlWithHost(scheme,
                Sub(s, SkipChars(s, colon + 1, {"/", "\\"}),
                    FindChars(s, SkipChars(s, colon + 1, {"/", "\\"}),
                              {"/", "\\", "?", "#"}) - 1),
                FALSE)
  ELSE IF colon + 2 <= Len(s) /\ s[colon + 1] = "/" /\ s[colon + 2] = "/" THEN
    UrlWithHost(scheme,
                Sub(s, colon + 3, FindChars(s, colon + 3, {"/", "?", "#"}) - 1),
                TRUE)
  ELSE UrlOk(scheme)

UrlOf(s) ==
  IF SchemeEnd(s) = 0 THEN UrlThrows
  ELSE UrlAfterScheme(s, SchemeEnd(s), LowerAll(Sub(s, 1, SchemeEnd(s) - 1)))

\* new URL(uri), line 132, with no base: it throws a TypeError or gives a
\* URL, of which the protocol is kept.
NewURL(uri) == UrlOf(UrlInput(uri))

\* allowedSchemes with javascript: added.
AllowedSchemesAndScript ==
  {<<"h", "t", "t", "p", ":">>, <<"h", "t", "t", "p", "s", ":">>, <<"/">>,
   <<"j", "a", "v", "a", "s", "c", "r", "i", "p", "t", ":">>}

\* Line 115.
AllowedSchemes ==
  {<<"h", "t", "t", "p", ":">>, <<"h", "t", "t", "p", "s", ":">>, <<"/">>}

\* Lines 109-110.
ValidChunk(chunk) ==
  \/ chunk.web.defined /\ chunk.web.uri # <<>> /\ chunk.web.title # ""
  \/ /\ chunk.retrievedContext.defined
     /\ chunk.retrievedContext.uri # <<>>
     /\ chunk.retrievedContext.title # ""

\* Line 125: chunk.web || chunk.retrievedContext.
SourceOf(chunk) == IF chunk.web.defined THEN chunk.web ELSE chunk.retrievedContext

\* Lines 127-138.  startsWith of an undefined uri throws a TypeError that the
\* catch block takes like the one of new URL.
IsSafeUri(uri) ==
  IF StartsWith(uri, <<"/">>) THEN TRUE
  ELSE IF NewURL(uri).threw THEN FALSE
  ELSE NewURL(uri).protocol \in AllowedSchemes

\* Lines 140-166: the list item of a chunk, a link or plain text.
SourceItem(source) ==
  IF IsSafeUri(source.uri)
    THEN [tag |-> "a", href |-> source.uri, text |-> source.title]
    ELSE [tag |-> "span", href |-> <<>>, text |-> source.title]

NotRendered == [rendered |-> FALSE, shown |-> FALSE, items |-> <<>>]

RenderedNull == [rendered |-> TRUE, shown |-> FALSE, items |-> <<>>]

\* Lines 123-168 for the chunks that passed the filter.
RenderedList(validChunks) ==
  IF Len(validChunks) = 0 THEN RenderedNull
  ELSE [rendered |-> TRUE, shown |-> TRUE,
        items |-> [n \in 1..Len(validChunks) |-> SourceItem(SourceOf(validChunks[n]))]]

\* renderGroundingSources, lines 103-171, on the grounding metadata metadata.
renderGroundingSources(metadata) ==
  IF ~metadata.defined \/ Len(metadata.chunks) = 0 THEN RenderedNull
  ELSE RenderedList(SelectSeq(metadata.chunks, ValidChunk))

\* The URIs of the chunks, each lead \o scheme \o sep \o rest.
\* lead:   nothing, a space, a slash.
\* scheme: http in two spellings and with a newline inside, https,
\*         javascript, also with a tab inside, data, ftp, none, one that
\*         starts with a digit.
\* sep:    a colon or nothing.
\* rest:   nothing, slashes, a host, a host and a path, a host with a space
\*         inside, a backslash, a space.
SampleUris ==
  {lead \o scheme \o sep \o rest :
     lead \in {<<>>, <<" ">>, <<"/">>},
     scheme \in
       {<<"h", "t", "t", "p">>, <<"H", "t", "T", "p">>, <<"h", "t", "\n", "t", "p">>,
        <<"h", "t", "t", "p", "s">>,
        <<"j", "a", "v", "a", "s", "c", "r", "i", "p", "t">>,
        <<"j", "a", "v", "a", "\t", "s", "c", "r", "i", "p", "t">>,
        <<"d", "a", "t", "a">>, <<"f", "t", "p">>, <<>>, <<"1", "a">>},
     sep \in {<<":">>, <<>>},
     rest \in
       {<<>>, <<"/">>, <<"/", "/">>, <<"/", "/", "a">>, <<"a">>,
        <<"/", "/", "a", "/", "b">>, <<"/", "/", "a", " ", "b">>, <<"\\", "a">>,
        <<"/", "/", " ">>}}

\* The chunks that carry uri: in web, in retrievedContext, in web without a
\* title, in retrievedContext behind a web part without uri, in web in front
\* of a retrievedContext part.
ChunksOf(uri) ==
  {Chunk(Part(uri, "T"), NoPart),
   Chunk(NoPart, Part(uri, "T")),
   Chunk(Part(uri, ""), NoPart),
   Chunk(Part(<<>>, "W"), Part(uri, "T")),
   Chunk(Part(uri, "T"), Part(UriHttpsA, "R"))}

\* The grounding metadata rendered: none, no chunk, one chunk, one chunk
\* behind a chunk that the filter of lines 108-111 drops.
SampleMetadata ==
  {NoGrounding, [defined |-> TRUE, chunks |-> <<>>]}
  \cup {[defined |-> TRUE, chunks |-> <<c>>] :
          c \in UNION {ChunksOf(uri) : uri \in SampleUris}}
  \cup {[defined |-> TRUE, chunks |-> <<Chunk(NoPart, NoPart), c>>] :
          c \in UNION {ChunksOf(uri) : uri \in SampleUris}}

\* Line 207: App renders and renderGroundingSources() is called.
RenderSources ==
  /\ ~sourcesView.rendered
  /\ sourcesView' = renderGroundingSources(groundingMetadata)
  /\ UNCHANGED <<serviceVars, appVars, decVars, modalDeal, predictionMemo, predictionLog>>

\* ------------------------------------------------------------------------
\* PriceHistoryModal
\* ------------------------------------------------------------------------

\* The hook has no state: the component has not run it yet, or React has
\* dropped its state.
NoMemo == [set |-> FALSE, deps |-> JNull, value |-> ""]

\* React.useMemo(..., [deal.id]), lines 18-22: the value of the last render
\* when the hook has state and the dependency is the same, otherwise a new
\* one, that of lines 19-21, aboveHalf being Math.random() > 0.5.
UseMemo(memo, deps, aboveHalf) ==
  IF memo.set /\ memo.deps = deps THEN memo
  ELSE [set |-> TRUE, deps |-> deps,
        value |-> IF aboveHalf
                    THEN " likely to remain stable in the short term."
                    ELSE " showing good value. Consider purchasing soon if interested."]

\* The deals the modal is rendered with: three deals, and one that shares its
\* id with the first.
ModalDeals ==
  {SampleDeal,
   JObj(<<JMember(KeyId, JStr(<<"0", "-", "1">>)), JMember(KeyTitle, JStr(<<"B">>))>>),
   JObj(<<JMember(KeyId, JStr(<<"1", "-", "0">>)), JMember(KeyTitle, JStr(<<"C">>))>>),
   JObj(<<JMember(KeyId, JStr(<<"0", "-", "0">>)), JMember(KeyTitle, JStr(<<"A2">>))>>)}

\* No prediction shown yet for any deal id.
NoPredictions == [id \in {GetMember(deal, KeyId) : deal \in ModalDeals} |-> ""]

\* The hook state after a render with deal null.  Line 14 returns before
\* the hook of line 18, which the rules of hooks forbid: React resets the
\* state of the hooks of a render that calls none, and promises nothing.
MemoAfterNull(memo) == {NoMemo, memo}

\* PriceHistoryModal is rendered with deal as its deal prop, lines 13-22.
RenderModal(deal, aboveHalf) ==
  /\ modalDeal' = deal
  /\ IF deal = JNull
       THEN /\ predictionMemo' \in MemoAfterNull(predictionMemo)
            /\ UNCHANGED predictionLog
       ELSE /\ predictionMemo' = UseMemo(predictionMemo, GetMember(deal, KeyId), aboveHalf)
            /\ predictionLog' =
                 [predictionLog EXCEPT ![GetMember(deal, KeyId)] =
                    IF @ = "" THEN predictionMemo'.value ELSE @]
  /\ UNCHANGED <<serviceVars, appVars, decVars, sourcesView>>

\* ------------------------------------------------------------------------
\* Specifications
\* ------------------------------------------------------------------------

\* Lines 13-29 of App and line 6 of the service: the state when the page
\* loads, with or without the key in the environment.
InitService ==
  /\ apiKey \in BOOLEAN
  /\ ai = FALSE
  /\ calls = <<>>
  /\ settled = NoCall
  /\ oracleLog = <<>>
  /\ now = 0

InitApp ==
  /\ mounted = FALSE
  /\ deals = <<>>
  /\ isLoading = TRUE
  /\ error = NoError
  /\ apiKeyMissing = FALSE
  /\ groundingMetadata = NoGrounding
  /\ selectedDealForVerification = JNull
  /\ verificationData = JNull
  /\ isVerifying = FALSE

DecoderIdle ==
  /\ decInput = NoInput
  /\ decText = <<>>
  /\ decPc = "idle"
  /\ decResult = Pending

\* Nothing is rendered yet and the price history modal has shown no deal.
ViewsIdle ==
  /\ sourcesView = NotRendered
  /\ modalDeal = JNull
  /\ predictionMemo = NoMemo
  /\ predictionLog = NoPredictions

Init == InitService /\ InitApp /\ DecoderIdle /\ ViewsIdle

Next ==
  \/ MountEffect
  \/ \E prefs \in SamplePrefs, g \in BOOLEAN : HandleSearch(prefs, g)
  \/ \E i \in 1..Len(calls), t \in 0..MaxClock :
       \E resp \in ResponsesTo(calls[i]) : FetchSettles(i, resp, t)
  \/ \E n \in 1..Len(deals) : HandleVerifyDeal(n)
  \/ \E i \in 1..Len(calls) :
       \E resp \in ResponsesTo(calls[i]) : VerifySettles(i, resp)
  \/ CloseVerificationModal

\* The App and the service it calls.
Spec == Init /\ [][Next]_vars

NextService ==
  \/ \E prefs \in SamplePrefs, g \in BOOLEAN : CallGenerateDeals(prefs, g)
  \/ CallVerifyDeal(SampleDeal)
  \/ \E i \in 1..Len(calls), t \in 0..MaxClock :
       \E resp \in ResponsesTo(calls[i]) : OracleSettles(i, resp, t)

\* The service under a caller that calls as it likes.
SpecService == Init /\ [][NextService]_vars

\* parseJsonFromText(decText, decInput.expectArray) is called and returns or
\* throws.
Decode ==
  /\ decPc = "ready"
  /\ decPc' = "done"
  /\ decResult' = parseJsonFromText(decText, decInput.expectArray)
  /\ UNCHANGED <<decInput, decText, serviceVars, appVars, viewVars>>

InitDecode ==
  /\ apiKey = TRUE /\ ai = FALSE /\ calls = <<>> /\ settled = NoCall
  /\ oracleLog = <<>> /\ now = 0
  /\ InitApp
  /\ decInput \in DecodeInputs
  /\ decText = TextOf(decInput)
  /\ decPc = "ready"
  /\ decResult = Pending
  /\ ViewsIdle

NextDecode == Decode

\* The decoder alone, on each input of DecodeInputs.
SpecDecode == InitDecode /\ [][NextDecode]_vars

InitRender ==
  /\ apiKey = TRUE /\ ai = TRUE /\ calls = <<>> /\ settled = NoCall
  /\ oracleLog = <<>> /\ now = 0
  /\ mounted = TRUE
  /\ deals = <<>>
  /\ isLoading = FALSE
  /\ error = NoError
  /\ apiKeyMissing = FALSE
  /\ groundingMetadata \in SampleMetadata
  /\ selectedDealForVerification = JNull
  /\ verificationData = JNull
  /\ isVerifying = FALSE
  /\ DecoderIdle
  /\ ViewsIdle

NextRender == RenderSources

\* renderGroundingSources alone, on each grounding metadata of
\* SampleMetadata.
SpecRender == InitRender /\ [][NextRender]_vars

InitModal ==
  /\ apiKey = TRUE /\ ai = FALSE /\ calls = <<>> /\ settled = NoCall
  /\ oracleLog = <<>> /\ now = 0
  /\ InitApp
  /\ DecoderIdle
  /\ ViewsIdle

NextModal ==
  \E deal \in ModalDeals \cup {JNull}, aboveHalf \in BOOLEAN : RenderModal(deal, aboveHalf)

\* PriceHistoryModal alone, under a parent that renders it as it likes.
SpecModal == InitModal /\ [][NextModal]_vars

\* ------------------------------------------------------------------------
\* Properties
\* ------------------------------------------------------------------------

\* v.score === 0
ScoreIsZero(v) == HasMember(v, KeyScore) /\ GetMember(v, KeyScore) = JNum(<<"0">>)

\* C1: verifyDeal never raises to its caller, whatever the credential, the
\* oracle call and the oracle text; with the credential absent it returns a
\* value with a summary and score 0, and makes no oracle call.
C1_VerifyDealNeverRaises ==
  settled.fn = "verifyDeal" =>
    /\ ~settled.outcome.threw
    /\ ~apiKey => /\ ~settled.called
                  /\ HasMember(settled.outcome.value, KeySummary)
                  /\ ScoreIsZero(settled.outcome.value)

\* C2: generateDeals fails only when the credential is absent or the oracle
\* call itself failed; whenever the oracle returns a text it returns a deal
\* list, the empty one when the text cannot be decoded.
C2_GenerateDealsFailsOnlyOnGateOrOracle ==
  settled.fn = "generateDeals" =>
    /\ settled.outcome.threw => ~settled.called \/ settled.resp.kind = "error"
    /\ /\ settled.resp.kind = "text"
       /\ parseJsonFromText(settled.resp.text, TRUE).value = JNull
       => /\ ~settled.outcome.threw
          /\ settled.outcome.value.deals = <<>>

\* C3: decoding, with an array expected, an array text cut inside its last
\* element (no closing bracket) returns the sequence of exactly the complete
\* leading objects.
C3_TruncatedArrayYieldsLeadingObjects ==
  /\ decPc = "done"
  /\ decInput.family = "truncated"
  /\ decInput.expectArray
  /\ Len(decInput.objs) >= 1
  => decResult = Returned(JArr(ParsedAll(decInput.objs)))

\* C4: decoding, with an array expected, N >= 1 well-formed objects
\* separated by commas inside array brackets and followed, inside the
\* brackets, by malformed content returns exactly those N objects, in their
\* order.
C4_SalvageReturnsTheWellFormedObjects ==
  /\ decPc = "done"
  /\ decInput.family = "salvage"
  /\ decInput.expectArray
  /\ Len(decInput.objs) >= 1
  => decResult = Returned(JArr(ParsedAll(decInput.objs)))

\* Two objects, the first with an escaped quote and a brace inside a string,
\* the second nested, are salvaged from before a malformed tail.
C4_Witness ==
  /\ decPc = "done"
  /\ decInput.family = "salvage"
  /\ decInput.expectArray
  /\ decInput.objs = <<ObjEscQuote, ObjNested>>
  /\ decInput.tail = <<"{", "{", "}">>
  /\ decResult.value.kind = "array"
  /\ Len(decResult.value.items) = 2

\* C5: decoding a valid JSON text J wrapped in one whole-string code fence,
\* with or without a language tag and with or without white space between
\* the fence markers and J, returns what JSON.parse(J) returns.
C5_FencedJsonDecodesAsUnfenced ==
  decPc = "done" /\ decInput.family = "fenced"
  => decResult = Returned(JSONParse(decInput.json).val)

\* C6: with the credential absent, generateDeals fails with API_KEY_MISSING
\* and no request is ever handed to the oracle.
C6_NoOracleCallWithoutCredential ==
  ~apiKey =>
    /\ oracleLog = <<>>
    /\ calls = <<>>
    /\ settled.fn = "generateDeals" =>
         ~settled.called /\ settled.outcome = Thrown(API_KEY_MISSING)

C6_Witness ==
  ~apiKey /\ settled.fn = "generateDeals" /\ settled.outcome.threw

\* C7: the App is in missing-credential mode only if the credential is
\* absent, and no failure of the oracle call reaches the caller as
\* API_KEY_MISSING.
C7_OnlyAbsentCredentialTriggersMockMode ==
  /\ apiKeyMissing => ~apiKey
  /\ settled.resp.kind = "error" => settled.outcome.message # API_KEY_MISSING

\* C8: verifyDeal, with the credential present, absorbs every failure of
\* the oracle call: it returns the connection-failure value with score 0.
C8_VerifyDealAbsorbsOracleFailures ==
  settled.fn = "verifyDeal" /\ settled.called /\ settled.resp.kind = "error"
  => settled.outcome = Returned(ConnectFailedVerification)

\* A step in which a verification flow started by handleVerifyDeal ends: its
\* verifyDeal call settles, or handleVerifyDeal returns at line 91.
VerifyFlowEnds ==
  \/ Len(calls') < Len(calls) /\ settled'.fn = "verifyDeal"
  \/ /\ apiKeyMissing
     /\ calls' = calls
     /\ selectedDealForVerification' # JNull
     /\ <<selectedDealForVerification, verificationData>>'
          # <<selectedDealForVerification, verificationData>>

\* The flow that ends took a failure path: the credential is missing, the
\* call threw, the oracle call failed or its text could not be decoded.
VerifyFlowFailed ==
  \/ calls' = calls
  \/ settled'.outcome.threw
  \/ settled'.resp.kind = "error"
  \/ parseJsonFromText(settled'.resp.text, FALSE).value = JNull

\* C9: when a verification flow ends, isVerifying is false and
\* verificationData is not null; on every failure path the result has score 0.
C9_VerifyFlowEndsShown ==
  [][VerifyFlowEnds =>
       /\ isVerifying' = FALSE
       /\ verificationData' # JNull
       /\ VerifyFlowFailed => ScoreIsZero(verificationData')]_vars

\* A flow ended on an oracle text that could not be decoded.
C9_Witness ==
  /\ settled.fn = "verifyDeal"
  /\ settled.resp.kind = "text"
  /\ settled.resp.text = TextOops
  /\ selectedDealForVerification # JNull
  /\ ~isVerifying
  /\ verificationData = FormatErrorVerification

\* C10: parseJsonFromText never throws, and returns null for the empty
\* text and for a text of white space only, whether an array is expected or
\* not.
C10_DecoderIsTotal ==
  decPc = "done" =>
    /\ ~decResult.threw
    /\ Trim(decText) = <<>> => decResult = Returned(JNull)

\* The loose match of a text found something that JSON.parse rejected, in
\* the catch block of the direct parse.
C10_Witness ==
  /\ decPc = "done"
  /\ decInput.family = "raw"
  /\ decInput.expectArray
  /\ LooseMatch(StripFence(decText)) # <<>>
  /\ ~JSONParse(LooseMatch(StripFence(decText))).ok
  /\ decResult = Returned(JNull)

\* The deal lists a fetch installs on what generateDeals came to: the deals
\* returned, the placeholder deals of some draws, or no deal.
ProducedLists(outcome) ==
  IF ~outcome.threw THEN {outcome.value.deals}
  ELSE IF outcome.message = API_KEY_MISSING
    THEN {PlaceholderDeals(draws) : draws \in RandomDraws}
  ELSE {<<>>}

\* C11: once a fetchDeals call has settled, the deals state is exactly the
\* list that call produced (the returned deals, the placeholder deals, or
\* the empty list), with nothing of an earlier list left in it.
C11_DealsReplacedWholesale ==
  settled.fn = "generateDeals" => deals \in ProducedLists(settled.outcome)

\* A fetch failed and emptied the list while the verification modal still
\* holds a deal of the list that was on display before.
C11_Witness ==
  /\ settled.fn = "generateDeals"
  /\ settled.outcome.threw
  /\ settled.outcome.message = GenerateFailedMessage
  /\ selectedDealForVerification # JNull
  /\ ~isLoading
  /\ deals = <<>>

\* The values of member key of the deals of a list.
Field(list, key) == [n \in 1..Len(list) |-> GetMember(list[n], key)]

\* No two places of a sequence hold the same value.
PairwiseDistinct(seq) ==
  \A m, n \in 1..Len(seq) : m # n => seq[m] # seq[n]

\* The last generateDeals call that ended failed with the missing-credential
\* error, and fetchDeals has run its catch block on it.
FetchFailedOnCredentials ==
  /\ settled.fn = "generateDeals"
  /\ settled.outcome.threw
  /\ settled.outcome.message = API_KEY_MISSING

\* C12: when generateDeals fails with the missing-credential error, the
\* deals installed are INITIAL_DEALS_COUNT placeholder deals (so at least
\* one), their ids differ pairwise and each one's category is one of
\* DEAL_CATEGORIES.
C12_PlaceholderListShape ==
  FetchFailedOnCredentials =>
    /\ Len(deals) = INITIAL_DEALS_COUNT
    /\ Len(deals) > 0
    /\ \A n \in 1..Len(deals) : HasMember(deals[n], KeyId)
    /\ PairwiseDistinct(Field(deals, KeyId))
    /\ \A n \in 1..Len(deals) :
         /\ HasMember(deals[n], <<"category">>)
         /\ \E c \in 1..Len(DEAL_CATEGORIES) :
              GetMember(deals[n], <<"category">>) = JStr(<<DEAL_CATEGORIES[c]>>)

\* The page loaded without a key and the mount fetch installed the
\* placeholder deals.
C12_Witness ==
  /\ ~apiKey
  /\ FetchFailedOnCredentials
  /\ ~settled.called
  /\ apiKeyMissing
  /\ Len(deals) = INITIAL_DEALS_COUNT

\* C13: the placeholder deals are the same in every run of the fallback:
\* with the key absent and the placeholder deals on display, any further
\* step (a new search runs the fallback again) leaves the list as it is,
\* field for field.
C13_PlaceholderDealsDeterministic ==
  [][(~apiKey /\ apiKeyMissing) => deals' = deals]_vars

\* The last call that ended is a generateDeals call that returned.
GenerateReturned == settled.fn = "generateDeals" /\ ~settled.outcome.threw

\* The id generateDeals gives, at time t, to the deal at place n of a batch.
AssignedId(t, n) == JStr(<<ToString(t), "-", ToString(n - 1)>>)

\* C14: every deal generateDeals returns has the id the orchestrator made of
\* the time and the index, whatever id the decoded item carried, and the ids
\* of one batch differ pairwise.
C14_IdsAssignedByOrchestrator ==
  GenerateReturned =>
    /\ \A n \in 1..Len(settled.outcome.value.deals) :
         /\ HasMember(settled.outcome.value.deals[n], KeyId)
         /\ GetMember(settled.outcome.value.deals[n], KeyId) = AssignedId(now, n)
    /\ PairwiseDistinct(Field(settled.outcome.value.deals, KeyId))

\* A batch of two was returned at time 1 from a text whose second item
\* carries the id "x".
C14_Witness ==
  /\ GenerateReturned
  /\ settled.resp.text = GenTextTwoDeals
  /\ now = 1
  /\ Len(settled.outcome.value.deals) = 2
  /\ GetMember(settled.outcome.value.deals[2], KeyId) = AssignedId(1, 2)

\* The items the text of the last call that ended decodes to.
DecodedItems == parseJsonFromText(settled.resp.text, TRUE).value.items

\* C15: in a batch generateDeals returns, a deal whose decoded item supplies
\* an imageUrl keeps it, and any other deal gets the reference synthesized
\* from its title, or from its position when it has no title.
C15_SuppliedImageUrlKept ==
  GenerateReturned =>
    \A n \in 1..Len(settled.outcome.value.deals) :
      GetMember(settled.outcome.value.deals[n], KeyImageUrl) =
        IF HasMember(DecodedItems[n], KeyImageUrl)
          THEN GetMember(DecodedItems[n], KeyImageUrl)
          ELSE ImageUrl(DecodedItems[n], n - 1)

\* The request handed to the oracle in this step, for the call that starts
\* in it.
RequestModeOk(call, request) ==
  /\ request.responseMimeType # request.tools
  /\ call.useSearchGrounding =>
       request.tools /\ ~request.responseMimeType /\ request.prompt = "search"
  /\ ~call.useSearchGrounding =>
       request.responseMimeType /\ ~request.tools /\ request.prompt = "generation"

\* C16: a request generateDeals hands to the oracle carries the JSON
\* response hint and the generation prompt and no search tool when
\* useSearchGrounding is false, the search tool and the search prompt and
\* no JSON hint when it is true; never both options, never neither.
C16_RequestModesExclusive ==
  [][(/\ Len(oracleLog') = Len(oracleLog) + 1
      /\ oracleLog'[Len(oracleLog')].fn = "generateDeals")
     => RequestModeOk(calls'[Len(calls')], oracleLog'[Len(oracleLog')])]_vars

\* The oracle has got a request of each mode.
C16_Witness ==
  /\ \E n \in 1..Len(oracleLog) :
       /\ oracleLog[n].fn = "generateDeals"
       /\ oracleLog[n].tools /\ ~oracleLog[n].responseMimeType
  /\ \E n \in 1..Len(oracleLog) :
       /\ oracleLog[n].fn = "generateDeals"
       /\ oracleLog[n].responseMimeType /\ ~oracleLog[n].tools

\* Line 200: the red banner with the error message is on the page.
ErrorBannerShown == error # NoError /\ ~apiKeyMissing

\* The last generateDeals call that ended failed with another error than the
\* missing-credential one, and fetchDeals has run to its end on it.
FetchFailedOnOracle ==
  /\ settled.fn = "generateDeals"
  /\ settled.outcome.threw
  /\ settled.outcome.message # API_KEY_MISSING
  /\ ~isLoading

\* C17: once a generateDeals call has failed with an oracle error and
\* fetchDeals has settled, the deal list is empty and the error message is
\* set and shown as the error banner.
C17_OracleErrorClearsAndShowsBanner ==
  FetchFailedOnOracle =>
    /\ deals = <<>>
    /\ error = <<GEMINI_ERROR_MESSAGE, " Details: ", settled.outcome.message>>
    /\ ErrorBannerShown

\* C18: when the oracle call inside generateDeals fails, generateDeals
\* rejects with an error that carries the message of that failure.
C18_OracleErrorCarriesMessage ==
  (settled.fn = "generateDeals" /\ settled.resp.kind = "error") =>
    /\ settled.outcome.threw
    /\ settled.outcome.message = settled.resp.message

\* The URI of a citation is site-relative, or parses as a URL whose scheme
\* is http or https.
CitationUriSafe(uri) ==
  \/ StartsWith(uri, <<"/">>)
  \/ /\ ~NewURL(uri).threw
     /\ NewURL(uri).protocol \in {<<"h", "t", "t", "p", ":">>, <<"h", "t", "t", "p", "s", ":">>}

\* The citations on display: the sources of the chunks that pass the filter.
Citations ==
  [n \in 1..Len(SelectSeq(groundingMetadata.chunks, ValidChunk)) |->
     SourceOf(SelectSeq(groundingMetadata.chunks, ValidChunk)[n])]

\* C19: a citation is rendered as a link only if its URI starts with "/" or
\* parses as a URL whose scheme is http or https; a citation whose URI has
\* another scheme or does not parse is rendered as plain text, with no href.
C19_OnlySafeCitationsLinked ==
  (sourcesView.rendered /\ sourcesView.shown) =>
    /\ Len(sourcesView.items) = Len(Citations)
    /\ \A n \in 1..Len(sourcesView.items) :
         /\ sourcesView.items[n].tag = "a" =>
              /\ CitationUriSafe(Citations[n].uri)
              /\ sourcesView.items[n].href = Citations[n].uri
         /\ ~CitationUriSafe(Citations[n].uri) =>
              /\ sourcesView.items[n].tag = "span"
              /\ sourcesView.items[n].href = <<>>

\* A citation whose URI parses as a javascript: URL once the tab inside its
\* scheme and the space in front are removed is on display as plain text.
C19_Witness ==
  /\ sourcesView.rendered /\ sourcesView.shown
  /\ Len(Citations) = 1
  /\ Citations[1].uri # UrlInput(Citations[1].uri)
  /\ ~NewURL(Citations[1].uri).threw
  /\ NewURL(Citations[1].uri).protocol = <<"j", "a", "v", "a", "s", "c", "r", "i", "p", "t", ":">>
  /\ sourcesView.items[1].tag = "span"

\* C20: the prediction the modal shows for a deal is chosen once: at any
\* render with a deal, the text is the one first shown for the deal's id,
\* whatever Math.random() returns later.
C20_PredictionChosenOncePerDeal ==
  modalDeal # JNull =>
    predictionMemo.value = predictionLog[GetMember(modalDeal, KeyId)]

\* C21: a response to a verification never reaches the modal of another
\* deal: when a verifyDeal call ends and handleVerifyDeal resumes while a
\* deal is selected, the call is the one made for the selected deal.
C21_ResponseBelongsToSelectedDeal ==
  [][(/\ Len(calls') < Len(calls)
      /\ settled'.fn = "verifyDeal"
      /\ selectedDealForVerification' # JNull)
       => settled'.deal = selectedDealForVerification']_vars

\* C22: decoding, with an array expected, an array-shaped text whose first
\* element is malformed and whose other elements are N >= 1 well-formed
\* objects returns an array that ends with those N objects, in their order.
C22_SalvageKeepsObjectsAfterMalformed ==
  /\ decPc = "done"
  /\ decInput.family = "mixed"
  /\ decInput.expectArray
  /\ Len(decInput.objs) >= 1
  => /\ ~decResult.threw
     /\ decResult.value.kind = "array"
     /\ Len(decResult.value.items) >= Len(decInput.objs)
     /\ SubSeq(decResult.value.items,
               Len(decResult.value.items) - Len(decInput.objs) + 1,
               Len(decResult.value.items)) = ParsedAll(decInput.objs)

\* C23: what verifyDeal returns is a DealVerification: an object that has a
\* summary and a score.
C23_VerifyDealReturnsVerifications ==
  (settled.fn = "verifyDeal" /\ ~settled.outcome.threw) =>
    /\ settled.outcome.value.kind = "object"
    /\ HasMember(settled.outcome.value, KeySummary)
    /\ HasMember(settled.outcome.value, KeyScore)

\* C24: at most one generateDeals call awaits the oracle, and isLoading is
\* true while one does and false once App is mounted and none does; a
\* search starts from the form only while isLoading is false; and when a
\* generateDeals call settles, isLoading is false afterwards.
C24_OneFetchInFlightLoadingEnds ==
  /\ [](/\ Cardinality({i \in 1..Len(calls) : calls[i].fn = "generateDeals"}) <= 1
        /\ (\E i \in 1..Len(calls) : calls[i].fn = "generateDeals") => isLoading
        /\ (mounted /\ isLoading) => \E i \in 1..Len(calls) : calls[i].fn = "generateDeals")
  /\ [][(/\ mounted
          /\ Len(calls') > Len(calls)
          /\ calls'[Len(calls')].fn = "generateDeals") => ~isLoading]_vars
  /\ [][(/\ Len(calls') < Len(calls)
          /\ settled'.fn = "generateDeals") => ~isLoading']_vars

\* A search with Google Search grounding, which only the form starts, awaits
\* the oracle after the fetch of the mount effect has settled.
C24_Witness ==
  /\ mounted
  /\ isLoading
  /\ settled.fn = "generateDeals"
  /\ \E i \in 1..Len(calls) :
       calls[i].fn = "generateDeals" /\ calls[i].useSearchGrounding

====
